---- MODULE Spec2Model ----
(***************************************************************************)
(* Client-side product acquisition of the storefront: the shoppingProducts *)
(* redux slice (store/shop/products-slice) and the ShoppingListing page    *)
(* (pages/shopping-view/listing) that drives it.                           *)
(*                                                                         *)
(* Store state is the record shopProducts; the component's hook state is   *)
(* filters, sort, fallbackMode.  React is modelled by three kinds of step: *)
(*   - an event (a click, a settled request) runs one handler or reducer   *)
(*     and marks the values it changed in dirty;                           *)
(*   - Render commits the changed values to the closure the callbacks of   *)
(*     that render read (rendered) and queues, in declaration order, the   *)
(*     effects whose dependencies changed;                                 *)
(*   - each queued effect runs as a step of its own, reading rendered.     *)
(* Events are taken when nothing is left to render and no effect is        *)
(* queued: React flushes the effects of a commit before the next event is  *)
(* handled.                                                                *)
(***************************************************************************)
EXTENDS Integers, Sequences, FiniteSets, TLC

\* ---------------------------------------------------------------- bounds
MaxClicks == 1

\* ------------------------------------------------------------ JS values
Null == [type |-> "null", message |-> "", code |-> ""]
Undefined == [type |-> "undefined", message |-> "", code |-> ""]
Truthy(v) == v # Null /\ v # Undefined

\* data of a 200 response: the records, or no data field at all
NoData == <<0>>
FirebaseRecords == {<< >>, <<1>>}
MongoRecords == {<< >>, <<3>>}
DataOrEmpty(d) == IF d = NoData THEN << >> ELSE d

\* ------------------------------------------------------- raw failures
\* An axios error: with a response (status, body) or without one (code,
\* message).  body "null" is a response whose data is null, "empty" one
\* without message and error fields, "full" one with both.
Statuses == {401, 404, 500, 400}
Bodies == {"null", "empty", "full"}
RawFailures ==
  [response : {TRUE}, status : Statuses, body : Bodies, code : {"ERR_BAD_RESPONSE"}, message : {"axios"}]
  \cup
  [response : {FALSE}, status : {0}, body : {"null"}, code : {"ECONNABORTED", "ERR_NETWORK"}, message : {"axios"}]

BodyMessage(raw) == IF raw.body = "full" THEN "body.message" ELSE ""
BodyError(raw) == IF raw.body = "full" THEN "body.error" ELSE ""
Or(a, b) == IF a # "" THEN a ELSE b

ClassifyFirebase(raw) ==
  IF raw.response
  THEN IF raw.status = 401
       THEN IF raw.body = "null" THEN Undefined
            ELSE [type |-> "AUTH_ERROR",
                  message |-> Or(BodyMessage(raw), "Authentication required. Please log in."),
                  code |-> "UNAUTHORIZED"]
       ELSE IF raw.status = 404
       THEN [type |-> "NOT_FOUND", message |-> "Products not found", code |-> "PRODUCTS_NOT_FOUND"]
       ELSE IF raw.status = 500
       THEN IF raw.body = "null" THEN Undefined
            ELSE [type |-> "SERVER_ERROR",
                  message |-> Or(BodyError(raw), "Server error while fetching products"),
                  code |-> "SERVER_ERROR"]
       ELSE IF raw.body = "null" THEN Undefined
            ELSE [type |-> "API_ERROR",
                  message |-> Or(BodyMessage(raw), "Failed to fetch products"),
                  code |-> "API_ERROR"]
  ELSE IF raw.code = "ECONNABORTED"
       THEN [type |-> "NETWORK_ERROR",
             message |-> "Request timeout. Please check your connection.",
             code |-> "TIMEOUT"]
       ELSE [type |-> "NETWORK_ERROR",
             message |-> Or(raw.message, "Network error occurred"),
             code |-> "NETWORK_ERROR"]

ClassifyDetails(raw) ==
  IF raw.response
  THEN IF raw.status = 401
       THEN [type |-> "AUTH_ERROR",
             message |-> "Authentication required to view product details",
             code |-> "UNAUTHORIZED"]
       ELSE IF raw.status = 404
       THEN [type |-> "NOT_FOUND", message |-> "Product not found", code |-> "PRODUCT_NOT_FOUND"]
       ELSE IF raw.body = "null" THEN Undefined
            ELSE [type |-> "SERVER_ERROR",
                  message |-> Or(BodyMessage(raw), "Failed to fetch product details"),
                  code |-> "SERVER_ERROR"]
  ELSE [type |-> "NETWORK_ERROR",
        message |-> Or(raw.message, "Network error occurred"),
        code |-> "NETWORK_ERROR"]

\* variant: the fallback thunk classifying by status as the primary one does
ClassifyMongoDB_ByStatus(raw) ==
  IF raw.response /\ raw.status = 500
  THEN [type |-> "SERVER_ERROR",
        message |-> Or(BodyMessage(raw), "Failed to fetch products"),
        code |-> "SERVER_ERROR"]
  ELSE [type |-> "DATABASE_ERROR",
        message |-> Or(IF raw.response THEN BodyMessage(raw) ELSE "", "Failed to fetch products"),
        code |-> "DATABASE_ERROR"]

ClassifyMongoDB(raw) ==
  [type |-> "DATABASE_ERROR",
   message |-> Or(IF raw.response THEN BodyMessage(raw) ELSE "", "Failed to fetch products"),
   code |-> "DATABASE_ERROR"]

\* ------------------------------------------------------------ the slice
initialState ==
  [isLoading |-> FALSE, productList |-> << >>, productDetails |-> 0,
   error |-> Null, firebaseError |-> Null, authError |-> Null]

\* variant: clearProductErrors emptying the list too, as clearProductList does
clearProductErrors_AlsoClearsList(state) ==
  [state EXCEPT !.productList = << >>, !.error = Null, !.firebaseError = Null,
                !.authError = Null]

\* variant: clearProductErrors forgetting firebaseError
clearProductErrors_KeepsFirebaseError(state) ==
  [state EXCEPT !.error = Null, !.authError = Null]

clearProductErrors(state) ==
  [state EXCEPT !.error = Null, !.firebaseError = Null, !.authError = Null]

FirebasePending(state) ==
  [state EXCEPT !.isLoading = TRUE, !.error = Null, !.firebaseError = Null, !.authError = Null]

\* variant: the fulfilled reducer not clearing error
FirebaseFulfilled_KeepsError(state, data) ==
  [state EXCEPT !.isLoading = FALSE, !.productList = DataOrEmpty(data)]

FirebaseFulfilled(state, data) ==
  [state EXCEPT !.isLoading = FALSE, !.productList = DataOrEmpty(data), !.error = Null]

\* variant: every failure that is not an authentication error kept as firebaseError
FirebaseRejected_OtherToFirebaseError(state, payload) ==
  LET s == [state EXCEPT !.isLoading = FALSE, !.productList = << >>, !.error = payload]
  IN  IF payload.type = "AUTH_ERROR" THEN [s EXCEPT !.authError = payload]
      ELSE [s EXCEPT !.firebaseError = payload]

FirebaseRejected(state, payload) ==
  LET s == [state EXCEPT !.isLoading = FALSE, !.productList = << >>, !.error = payload]
  IN  IF payload.type = "AUTH_ERROR" THEN [s EXCEPT !.authError = payload]
      ELSE IF payload.type = "NOT_FOUND" THEN [s EXCEPT !.firebaseError = payload]
      ELSE [s EXCEPT !.error = payload]

DetailsPending(state) == [state EXCEPT !.isLoading = TRUE, !.error = Null]

DetailsFulfilled(state, product) ==
  [state EXCEPT !.isLoading = FALSE, !.productDetails = product, !.error = Null]

DetailsRejected(state, payload) ==
  [state EXCEPT !.isLoading = FALSE, !.productDetails = 0, !.error = payload]

MongoPending(state) == [state EXCEPT !.isLoading = TRUE, !.error = Null]

MongoFulfilled(state, data) ==
  [state EXCEPT !.isLoading = FALSE, !.productList = DataOrEmpty(data), !.error = Null]

MongoRejected(state, payload) ==
  [state EXCEPT !.isLoading = FALSE, !.productList = << >>, !.error = payload]

SliceFields == {"isLoading", "productList", "productDetails", "error", "firebaseError", "authError"}

\* the fields a reducer changed, as useSelector sees them: a different value,
\* or a freshly created object (fresh) assigned to the field
Changed(old, new, fresh) ==
  {f \in SliceFields : old[f] # new[f]} \cup {f \in fresh : Truthy(new[f])}

\* --------------------------------------------------------- the component
Options == {"men"}
SortOptions == {"price-lowtohigh", "price-hightolow"}
NoSort == "null"
\* filters: the keys present in the object and the options selected under
\* "category"; {} is [keys |-> {}, category |-> {}]
EmptyFilters == [keys |-> {}, category |-> {}]
FilterValues == {EmptyFilters} \cup [keys : {{"category"}}, category : SUBSET Options]

VARIABLES
  shopProducts,        \* state.shopProducts of the store
  filters, sort, fallbackMode,   \* useState of ShoppingListing
  categorySearchParam, \* searchParams.get("category"); {} when absent
  storedFilters,       \* JSON.parse(sessionStorage.getItem("filters")) || {}
  rendered,            \* the values the callbacks of the last render closed over
  dirty,               \* values changed since the last render
  effects,             \* effects of the last render still to run, in order
  inflight,            \* thunks dispatched and not yet settled, in order of dispatch
  clicks,              \* number of user events so far
  toasts,              \* "Using Backup Database" toasts shown so far
  dispatched,          \* thunks dispatched by the last step, in order
  lastEvent,           \* the last event handled
  lastList,            \* result of the list request issued last, once settled
  afterRetry,          \* handleRetryWithFirebase ran and no result was applied since
  sinceReset,          \* since the last handleRetryWithFirebase (or the start): a 401 or
                       \* 404 of the primary source was received; toasts shown
  proc,                \* the server process of server.js
  req,                 \* the request the products router is handling
  firestore,           \* the products collection of Firestore, in order of price
  db,                  \* the Product, Order and Cart collections of MongoDB
  handlers,            \* the running capturePayment and webhook handlers
  log,                 \* what the payment handlers have done so far
  calls,               \* the requests made through axiosClient
  auth,                \* the auth slice and the window location, as the interceptor uses them
  tiles                \* the state of each mounted ShoppingProductTile

pageVars == <<shopProducts, filters, sort, fallbackMode, categorySearchParam,
              storedFilters, rendered, dirty, effects, inflight, clicks,
              toasts, dispatched, lastEvent, lastList, afterRetry, sinceReset>>
serverVars == <<proc, req, firestore>>
orderVars == <<db, handlers, log>>
clientVars == <<calls, auth>>
tileVars == <<tiles>>
\* everything that is not the listing page and its slice
offPage == <<serverVars, orderVars, clientVars, tileVars>>
vars == <<pageVars, offPage>>

\* the parts a specification leaves out stay as they are here
NoServer == proc = << >> /\ req = << >> /\ firestore = << >>
NoOrders == db = << >> /\ handlers = << >> /\ log = << >>
NoClient == calls = << >> /\ auth = << >>
NoTiles == tiles = << >>

Closure ==
  [fallbackMode |-> fallbackMode, sort |-> sort, filters |-> filters,
   authError |-> shopProducts.authError, firebaseError |-> shopProducts.firebaseError,
   error |-> shopProducts.error, isLoading |-> shopProducts.isLoading,
   productList |-> shopProducts.productList]

NoRaw == [response |-> FALSE, status |-> 0, body |-> "null", code |-> "", message |-> ""]
\* an event: what it was, the request, status and code of the failure, the
\* payload and data of the result, mode and toasts when it was handled, and the
\* thunks its handler dispatched
Event(kind, thunk, raw, payload, data, sent) ==
  [kind |-> kind, thunk |-> thunk, status |-> raw.status, code |-> raw.code,
   payload |-> payload, data |-> data, mode |-> fallbackMode, toasts |-> toasts,
   sent |-> sent]
NoneSinceReset == [eligible |-> FALSE, toasts |-> 0]
NoList == [issued |-> FALSE, settled |-> FALSE, ok |-> FALSE, data |-> << >>, payload |-> Null]

Init ==
  /\ shopProducts = initialState
  /\ filters = EmptyFilters
  /\ sort = NoSort
  /\ fallbackMode = FALSE
  /\ categorySearchParam \in SUBSET Options
  /\ storedFilters \in FilterValues
  /\ rendered = [fallbackMode |-> FALSE, sort |-> NoSort, filters |-> EmptyFilters,
                 authError |-> Null, firebaseError |-> Null, error |-> Null,
                 isLoading |-> FALSE, productList |-> << >>]
  /\ dirty = {"mount"}
  /\ effects = << >>
  /\ inflight = << >>
  /\ clicks = 0
  /\ toasts = 0
  /\ dispatched = << >>
  /\ lastEvent = [kind |-> "mount", thunk |-> "", status |-> 0, code |-> "", payload |-> Null,
                  data |-> << >>, mode |-> FALSE, toasts |-> 0, sent |-> << >>]
  /\ lastList = NoList
  /\ afterRetry = FALSE
  /\ sinceReset = NoneSinceReset
  /\ NoServer /\ NoOrders /\ NoClient /\ NoTiles

Quiescent == dirty = {} /\ effects = << >>

\* the thunk fetchProducts dispatches, read from the closure cl of a render
fetchProducts(cl) ==
  IF cl.sort # NoSort
  THEN IF cl.fallbackMode THEN <<"mongo">> ELSE <<"firebase">>
  ELSE << >>

PendingOf(thunk, state) ==
  IF thunk = "firebase" THEN FirebasePending(state)
  ELSE IF thunk = "mongo" THEN MongoPending(state)
  ELSE DetailsPending(state)

\* dispatch(thunk(...)) for each thunk of ts, from the slice state `state`:
\* the pending reducers run and the requests are sent
RECURSIVE PendingAll(_, _)
PendingAll(ts, state) ==
  IF ts = << >> THEN state ELSE PendingAll(Tail(ts), PendingOf(Head(ts), state))

IsList(thunk) == thunk \in {"firebase", "mongo"}

Dispatch(ts, state) ==
  /\ shopProducts' = PendingAll(ts, state)
  /\ inflight' = inflight \o ts
  /\ dispatched' = ts
  /\ lastList' = IF \E i \in 1..Len(ts) : IsList(ts[i])
                 THEN [issued |-> TRUE, settled |-> FALSE, ok |-> FALSE,
                       data |-> << >>, payload |-> Null]
                 ELSE lastList

\* ------------------------------------------------------ render and effects
EffectOrder == <<"authError", "firebaseError", "init", "url", "fetch">>
Deps(e) ==
  IF e = "authError" THEN {"authError"}
  ELSE IF e = "firebaseError" THEN {"firebaseError", "fallbackMode"}
  ELSE IF e = "init" THEN {"categorySearchParam"}
  ELSE IF e = "url" THEN {"filters"}
  ELSE {"sort", "filters", "fallbackMode"}

EffectsToRun(d) ==
  SelectSeq(EffectOrder, LAMBDA e : "mount" \in d \/ Deps(e) \cap d # {})

Render ==
  /\ dirty # {}
  /\ effects = << >>
  /\ rendered' = Closure
  /\ dirty' = {}
  /\ effects' = EffectsToRun(dirty)
  /\ dispatched' = << >>
  /\ UNCHANGED <<shopProducts, filters, sort, fallbackMode, categorySearchParam,
                 storedFilters, inflight, clicks, toasts, lastEvent,
                 lastList, afterRetry, sinceReset, offPage>>

Runs(e) == effects # << >> /\ Head(effects) = e /\ effects' = Tail(effects)

\* useEffect [authError]: toast "Authentication Required", clear the errors
AuthErrorEffect ==
  /\ Runs("authError")
  /\ shopProducts' = IF Truthy(rendered.authError)
                     THEN clearProductErrors(shopProducts) ELSE shopProducts
  /\ dirty' = dirty \cup Changed(shopProducts, shopProducts', {})
  /\ dispatched' = << >>
  /\ UNCHANGED <<filters, sort, fallbackMode, categorySearchParam, storedFilters,
                 rendered, inflight, clicks, toasts, lastEvent, lastList,
                 afterRetry, sinceReset, offPage>>

\* variant: the switch not guarded by the mode
SwitchToFallback_NoGuard(cl) == Truthy(cl.firebaseError)

\* useEffect [firebaseError, fallbackMode]: switch to the fallback
SwitchToFallback(cl) == Truthy(cl.firebaseError) /\ ~cl.fallbackMode

FirebaseErrorEffect ==
  /\ Runs("firebaseError")
  /\ IF SwitchToFallback(rendered)
     THEN /\ fallbackMode' = TRUE
          /\ toasts' = toasts + 1
          /\ sinceReset' = [sinceReset EXCEPT !.toasts = @ + 1]
          /\ dirty' = dirty \cup (IF fallbackMode THEN {} ELSE {"fallbackMode"})
     ELSE UNCHANGED <<fallbackMode, toasts, sinceReset, dirty>>
  /\ dispatched' = << >>
  /\ UNCHANGED <<shopProducts, filters, sort, categorySearchParam, storedFilters,
                 rendered, inflight, clicks, lastEvent, lastList, afterRetry, offPage>>

\* useEffect [categorySearchParam]: initial sort, filters of the session
InitEffect ==
  /\ Runs("init")
  /\ sort' = "price-lowtohigh"
  /\ filters' = storedFilters
  /\ dirty' = dirty \cup {"filters"} \cup (IF sort # sort' THEN {"sort"} ELSE {})
  /\ dispatched' = << >>
  /\ UNCHANGED <<shopProducts, fallbackMode, categorySearchParam, storedFilters,
                 rendered, inflight, clicks, toasts, lastEvent, lastList,
                 afterRetry, sinceReset, offPage>>

\* useEffect [filters]: the query string follows the filters
UrlEffect ==
  /\ Runs("url")
  /\ categorySearchParam' = IF rendered.filters.keys # {}
                            THEN rendered.filters.category ELSE categorySearchParam
  /\ dirty' = dirty \cup (IF categorySearchParam' # categorySearchParam
                          THEN {"categorySearchParam"} ELSE {})
  /\ dispatched' = << >>
  /\ UNCHANGED <<shopProducts, filters, sort, fallbackMode, storedFilters, rendered,
                 inflight, clicks, toasts, lastEvent, lastList, afterRetry, sinceReset, offPage>>

\* useEffect [dispatch, sort, filters, fallbackMode]: fetchProducts()
FetchEffect ==
  /\ Runs("fetch")
  /\ Dispatch(fetchProducts(rendered), shopProducts)
  /\ dirty' = dirty \cup Changed(shopProducts, shopProducts', {})
  /\ UNCHANGED <<filters, sort, fallbackMode, categorySearchParam, storedFilters,
                 rendered, clicks, toasts, lastEvent, afterRetry, sinceReset, offPage>>

\* ------------------------------------------------------------ user events
ErrorShown(cl) == ~cl.isLoading /\ Truthy(cl.error) /\ ~Truthy(cl.authError)
EmptyShown(cl) == ~cl.isLoading /\ ~Truthy(cl.error) /\ Len(cl.productList) = 0
GridShown(cl) == ~cl.isLoading /\ ~Truthy(cl.error) /\ Len(cl.productList) > 0
Click == Quiescent /\ clicks < MaxClicks /\ clicks' = clicks + 1

handleSort(value) ==
  /\ Click
  /\ value # sort
  /\ sort' = value
  /\ dirty' = {"sort"}
  /\ dispatched' = << >>
  /\ lastEvent' = Event("sort", "", NoRaw, Null, << >>, << >>)
  /\ UNCHANGED <<shopProducts, filters, fallbackMode, categorySearchParam, storedFilters,
                 rendered, effects, inflight, toasts, lastList, afterRetry, sinceReset, offPage>>

ToggleOption(f, option) ==
  IF "category" \notin f.keys
  THEN [keys |-> {"category"}, category |-> {option}]
  ELSE IF option \in f.category
       THEN [f EXCEPT !.category = @ \ {option}]
       ELSE [f EXCEPT !.category = @ \cup {option}]

handleFilter(option) ==
  /\ Click
  /\ filters' = ToggleOption(filters, option)
  /\ storedFilters' = filters'
  /\ dirty' = {"filters"}
  /\ dispatched' = << >>
  /\ lastEvent' = Event("filter", "", NoRaw, Null, << >>, << >>)
  /\ UNCHANGED <<shopProducts, sort, fallbackMode, categorySearchParam, rendered,
                 effects, inflight, toasts, lastList, afterRetry, sinceReset, offPage>>

\* the "Try Again" button: onClick={fetchProducts}
TryAgain ==
  /\ Click
  /\ ErrorShown(rendered)
  /\ Dispatch(fetchProducts(rendered), shopProducts)
  /\ dirty' = Changed(shopProducts, shopProducts', {})
  /\ lastEvent' = Event("tryAgain", "", NoRaw, Null, << >>, fetchProducts(rendered))
  /\ UNCHANGED <<filters, sort, fallbackMode, categorySearchParam, storedFilters,
                 rendered, effects, toasts, afterRetry, sinceReset, offPage>>

\* variant: the handler not calling fetchProducts
RetryDispatches_None(cl) == << >>

\* the "Switch to Primary" button: setFallbackMode(false), clearProductErrors,
\* then fetchProducts() of the render the button belongs to
RetryDispatches(cl) == fetchProducts(cl)

\* variant: the button offered in the primary mode instead
RetryAvailable_Inverted(cl) == ErrorShown(cl) /\ ~cl.fallbackMode

\* the "Switch to Primary" button is rendered: inside the error state, and
\* only in the fallback mode
RetryAvailable(cl) == ErrorShown(cl) /\ cl.fallbackMode

handleRetryWithFirebase ==
  /\ Click
  /\ RetryAvailable(rendered)
  /\ fallbackMode' = FALSE
  /\ Dispatch(RetryDispatches(rendered), clearProductErrors(shopProducts))
  /\ afterRetry' = TRUE
  /\ sinceReset' = NoneSinceReset
  /\ dirty' = Changed(shopProducts, shopProducts', {})
               \cup (IF fallbackMode THEN {"fallbackMode"} ELSE {})
  /\ lastEvent' = Event("retry", "", NoRaw, Null, << >>, RetryDispatches(rendered))
  /\ UNCHANGED <<filters, sort, categorySearchParam, storedFilters, rendered, effects,
                 toasts, offPage>>

\* a click on a product tile
handleGetProductDetails(id) ==
  /\ Click
  /\ GridShown(rendered)
  /\ \E i \in 1..Len(rendered.productList) : rendered.productList[i] = id
  /\ Dispatch(<<"details">>, shopProducts)
  /\ dirty' = Changed(shopProducts, shopProducts', {})
  /\ lastEvent' = Event("details", "", NoRaw, Null, << >>, <<"details">>)
  /\ UNCHANGED <<filters, sort, fallbackMode, categorySearchParam, storedFilters,
                 rendered, effects, toasts, afterRetry, sinceReset, offPage>>

\* -------------------------------------------------------- settled requests
\* inflight[i] is the list request issued last
Latest(i) ==
  /\ IsList(inflight[i])
  /\ \A j \in (i + 1)..Len(inflight) : ~IsList(inflight[j])
  /\ ~lastList.settled

Remove(q, i) == SubSeq(q, 1, i - 1) \o SubSeq(q, i + 1, Len(q))

\* variant: a list request answered 401 sent again, as the response
\* interceptor of axiosClient does
Resend_Unauthorized(thunk, ok, payload) ==
  IF ~ok /\ payload.type = "AUTH_ERROR" THEN <<thunk>> ELSE << >>

\* the requests a thunk sends again once its request is answered: none, the
\* thunks call axios.get once, on the axios without interceptors
Resend(thunk, ok, payload) == << >>

Settle(i, ok, data, payload) ==
  /\ inflight' = Remove(inflight, i) \o Resend(inflight[i], ok, payload)
  /\ sinceReset' = IF inflight[i] = "firebase" /\ ~ok
                        /\ payload.type \in {"AUTH_ERROR", "NOT_FOUND"}
                    THEN [sinceReset EXCEPT !.eligible = TRUE]
                    ELSE sinceReset
  /\ dispatched' = << >>
  /\ lastList' = IF Latest(i)
                 THEN [lastList EXCEPT !.settled = TRUE, !.ok = ok,
                                       !.data = data, !.payload = payload]
                 ELSE lastList
  /\ afterRetry' = FALSE
  /\ UNCHANGED <<filters, sort, fallbackMode, categorySearchParam, storedFilters,
                 rendered, effects, clicks, toasts, offPage>>

OnFirebaseFulfilled(i, data) ==
  /\ Quiescent
  /\ i \in 1..Len(inflight) /\ inflight[i] = "firebase"
  /\ shopProducts' = FirebaseFulfilled(shopProducts, data)
  /\ dirty' = Changed(shopProducts, shopProducts', {}) \cup {"productList"}
  /\ lastEvent' = Event("fulfilled", inflight[i], NoRaw, Null, DataOrEmpty(data), << >>)
  /\ Settle(i, TRUE, DataOrEmpty(data), Null)

OnFirebaseRejected(i, raw) ==
  /\ Quiescent
  /\ i \in 1..Len(inflight) /\ inflight[i] = "firebase"
  /\ LET payload == ClassifyFirebase(raw) IN
       /\ shopProducts' = FirebaseRejected(shopProducts, payload)
       /\ dirty' = Changed(shopProducts, shopProducts',
                           {f \in {"error", "firebaseError", "authError"} :
                               shopProducts'[f] = payload})
                   \cup {"productList"}
       /\ lastEvent' = Event("rejected", inflight[i], raw, payload, << >>, << >>)
       /\ Settle(i, FALSE, << >>, payload)

OnMongoFulfilled(i, data) ==
  /\ Quiescent
  /\ i \in 1..Len(inflight) /\ inflight[i] = "mongo"
  /\ shopProducts' = MongoFulfilled(shopProducts, data)
  /\ dirty' = Changed(shopProducts, shopProducts', {}) \cup {"productList"}
  /\ lastEvent' = Event("fulfilled", inflight[i], NoRaw, Null, DataOrEmpty(data), << >>)
  /\ Settle(i, TRUE, DataOrEmpty(data), Null)

OnMongoRejected(i, raw) ==
  /\ Quiescent
  /\ i \in 1..Len(inflight) /\ inflight[i] = "mongo"
  /\ LET payload == ClassifyMongoDB(raw) IN
       /\ shopProducts' = MongoRejected(shopProducts, payload)
       /\ dirty' = Changed(shopProducts, shopProducts', {"error"}) \cup {"productList"}
       /\ lastEvent' = Event("rejected", inflight[i], raw, payload, << >>, << >>)
       /\ Settle(i, FALSE, << >>, payload)

OnDetailsFulfilled(i, product) ==
  /\ Quiescent
  /\ i \in 1..Len(inflight) /\ inflight[i] = "details"
  /\ shopProducts' = DetailsFulfilled(shopProducts, product)
  /\ dirty' = Changed(shopProducts, shopProducts', {}) \cup {"productDetails"}
  /\ lastEvent' = Event("fulfilled", inflight[i], NoRaw, Null, << >>, << >>)
  /\ Settle(i, TRUE, << >>, Null)

OnDetailsRejected(i, raw) ==
  /\ Quiescent
  /\ i \in 1..Len(inflight) /\ inflight[i] = "details"
  /\ LET payload == ClassifyDetails(raw) IN
       /\ shopProducts' = DetailsRejected(shopProducts, payload)
       /\ dirty' = Changed(shopProducts, shopProducts', {"error"})
       /\ lastEvent' = Event("rejected", inflight[i], raw, payload, << >>, << >>)
       /\ Settle(i, FALSE, << >>, payload)

Products == {1, 3}

Next ==
  \/ Render
  \/ AuthErrorEffect
  \/ FirebaseErrorEffect
  \/ InitEffect
  \/ UrlEffect
  \/ FetchEffect
  \/ \E value \in SortOptions : handleSort(value)
  \/ \E option \in Options : handleFilter(option)
  \/ TryAgain
  \/ handleRetryWithFirebase
  \/ \E id \in Products : handleGetProductDetails(id)
  \/ \E i \in 1..Len(inflight), data \in FirebaseRecords \cup {NoData} : OnFirebaseFulfilled(i, data)
  \/ \E i \in 1..Len(inflight), raw \in RawFailures : OnFirebaseRejected(i, raw)
  \/ \E i \in 1..Len(inflight), data \in MongoRecords \cup {NoData} : OnMongoFulfilled(i, data)
  \/ \E i \in 1..Len(inflight), raw \in RawFailures : OnMongoRejected(i, raw)
  \/ \E i \in 1..Len(inflight), product \in Products : OnDetailsFulfilled(i, product)
  \/ \E i \in 1..Len(inflight), raw \in RawFailures : OnDetailsRejected(i, raw)

Spec == Init /\ [][Next]_vars

\* The listing left to itself against a primary store that answers every list
\* request with 401 or 404 and a fallback store that answers with records:
\* no user event; effects and responses are not postponed forever.
PrimaryDown ==
  {raw \in RawFailures : ClassifyFirebase(raw).type \in {"AUTH_ERROR", "NOT_FOUND"}}
FallbackUp == {data \in MongoRecords : Len(data) > 0}

LiveNext ==
  \/ Render
  \/ AuthErrorEffect
  \/ FirebaseErrorEffect
  \/ InitEffect
  \/ UrlEffect
  \/ FetchEffect
  \/ \E i \in 1..Len(inflight), raw \in PrimaryDown : OnFirebaseRejected(i, raw)
  \/ \E i \in 1..Len(inflight), data \in FallbackUp : OnMongoFulfilled(i, data)

LiveSpec == Init /\ [][LiveNext]_vars /\ WF_vars(LiveNext)

\* The slice alone: any state of the slice and either mode, and
\* dispatch(clearProductErrors()) on its own.
ErrorValues ==
  {Null} \cup {ClassifyFirebase(raw) : raw \in RawFailures}
         \cup {ClassifyMongoDB(raw) : raw \in RawFailures}
SliceStates ==
  [isLoading : BOOLEAN, productList : FirebaseRecords \cup MongoRecords,
   productDetails : {0} \cup Products, error : ErrorValues,
   firebaseError : {e \in ErrorValues : e.type \in {"null", "NOT_FOUND"}},
   authError : {e \in ErrorValues : e.type \in {"null", "AUTH_ERROR"}}]

SliceInit ==
  /\ shopProducts \in SliceStates
  /\ fallbackMode \in BOOLEAN
  /\ filters = EmptyFilters /\ sort = NoSort
  /\ categorySearchParam = {} /\ storedFilters = EmptyFilters
  /\ rendered = Closure
  /\ dirty = {} /\ effects = << >> /\ inflight = << >>
  /\ clicks = 0 /\ toasts = 0 /\ dispatched = << >>
  /\ lastEvent = Event("mount", "", NoRaw, Null, << >>, << >>)
  /\ lastList = NoList /\ afterRetry = FALSE /\ sinceReset = NoneSinceReset
  /\ NoServer /\ NoOrders /\ NoClient /\ NoTiles

\* dispatch(clearProductErrors()); the event keeps the error held before
ClearError ==
  /\ shopProducts' = clearProductErrors(shopProducts)
  /\ dirty' = dirty \cup Changed(shopProducts, shopProducts', {})
  /\ lastEvent' = Event("clearError", "", NoRaw, shopProducts.error, << >>, << >>)
  /\ UNCHANGED <<filters, sort, fallbackMode, categorySearchParam, storedFilters,
                 rendered, effects, inflight, clicks, toasts, dispatched, lastList,
                 afterRetry, sinceReset, offPage>>

SliceSpec == SliceInit /\ [][ClearError]_vars

\* the listing page not mounted
PageIdle ==
  /\ shopProducts = initialState /\ fallbackMode = FALSE
  /\ filters = EmptyFilters /\ sort = NoSort
  /\ categorySearchParam = {} /\ storedFilters = EmptyFilters
  /\ rendered = Closure
  /\ dirty = {} /\ effects = << >> /\ inflight = << >>
  /\ clicks = 0 /\ toasts = 0 /\ dispatched = << >>
  /\ lastEvent = Event("mount", "", NoRaw, Null, << >>, << >>)
  /\ lastList = NoList /\ afterRetry = FALSE /\ sinceReset = NoneSinceReset

\* ------------------------------------------------- the products router
\* the products a store can hold: id, price, category
Catalog ==
  {[id |-> 1, price |-> 10, category |-> "men"],
   [id |-> 2, price |-> 20, category |-> "women"],
   [id |-> 3, price |-> 30, category |-> "men"]}
MaxPage == 2
MaxLimit == 2
Users == {"none", "noid", "user"}     \* req.user: undefined, without id, with id
Routes == {"/firebase/get", "/firebase/get/:id", "/get", "/get/:id"}

Before(a, b, sortBy) ==
  IF sortBy = "price-hightolow" THEN a.price > b.price ELSE a.price < b.price

\* the records of S in the order of sortBy
RECURSIVE Sorted(_, _)
Sorted(S, sortBy) ==
  IF S = {} THEN << >>
  ELSE LET first == CHOOSE a \in S : \A b \in S \ {a} : Before(a, b, sortBy)
       IN  <<first>> \o Sorted(S \ {first}, sortBy)

\* Array.prototype.slice(start, end)
Slice(q, start, end) ==
  LET lo == IF start < Len(q) THEN start ELSE Len(q)
      hi == IF end < Len(q) THEN end ELSE Len(q)
  IN  SubSeq(q, lo + 1, hi)

Ceil(n, d) == (n + d - 1) \div d

Matching(S, category) ==
  {a \in S : category = {} \/ a.category \in category}

\* variant: the check of req.user.id left out
verifyAuthentication_UserOnly(user) == user # "none"

verifyAuthentication(user) == user = "user"

\* getDocs(query(where..., orderBy..., limit(n)))
getDocs(S, category, sortBy, n) == Slice(Sorted(Matching(S, category), sortBy), 0, n)

NoRequest ==
  [route |-> "", user |-> "none", page |-> 1, limit |-> 1, category |-> {},
   sortBy |-> "price-lowtohigh", id |-> 0, stage |-> "none", status |-> 0,
   data |-> << >>, total |-> 0, totalPages |-> 0, reads |-> 0]

Respond(status, data, total, totalPages, reads) ==
  req' = [req EXCEPT !.stage = "done", !.status = status, !.data = data,
                     !.total = total, !.totalPages = totalPages, !.reads = reads]

ServerInit ==
  /\ proc = [phase |-> "connecting", closing |-> "no", timers |-> 0, signals |-> 0,
             code |-> -1]
  /\ req = NoRequest
  /\ firestore \in SUBSET Catalog
  /\ PageIdle /\ NoOrders /\ NoClient /\ NoTiles

Serving == proc.phase = "listening"
ServerOther == <<pageVars, orderVars, clientVars, tileVars>>

\* a request reaches the router of /api/shop/products
Receive(route, user, page, limit, category, sortBy, id) ==
  /\ Serving /\ proc.closing = "no"
  /\ req.stage \in {"none", "done"}
  /\ req' = [NoRequest EXCEPT !.route = route, !.user = user, !.page = page,
                              !.limit = limit, !.category = category,
                              !.sortBy = sortBy, !.id = id,
                              !.stage = IF route \in {"/get", "/get/:id"}
                                        THEN "controller" ELSE "middleware"]
  /\ UNCHANGED <<proc, firestore, ServerOther>>

\* authMiddleware of the auth controller: it answers 401 itself or calls
\* next(), with or without req.user
authMiddleware ==
  /\ Serving /\ req.stage = "middleware"
  /\ \/ /\ req.user # "user"
        /\ Respond(401, << >>, 0, 0, 0)
     \/ req' = [req EXCEPT !.stage = "controller"]
  /\ UNCHANGED <<proc, firestore, ServerOther>>

getFilteredProductsFromFirebase(up) ==
  /\ Serving /\ req.stage = "controller" /\ req.route = "/firebase/get"
  /\ IF ~verifyAuthentication(req.user)
     THEN Respond(401, << >>, 0, 0, 0)
     ELSE IF ~up
     THEN Respond(500, << >>, 0, 0, 1)
     ELSE LET products == getDocs(firestore, req.category, req.sortBy,
                                  req.limit * req.page)
              startIndex == (req.page - 1) * req.limit
              endIndex == startIndex + req.limit
          IN  Respond(200, Slice(products, startIndex, endIndex), Len(products),
                      Ceil(Len(products), req.limit), 1)
  /\ UNCHANGED <<proc, firestore, ServerOther>>

getProductDetailsFromFirebase(up) ==
  /\ Serving /\ req.stage = "controller" /\ req.route = "/firebase/get/:id"
  /\ IF ~verifyAuthentication(req.user)
     THEN Respond(401, << >>, 0, 0, 0)
     ELSE IF ~up
     THEN Respond(500, << >>, 0, 0, 1)
     ELSE LET found == {a \in firestore : a.id = req.id}
          IN  IF found = {} THEN Respond(404, << >>, 0, 0, 1)
              ELSE Respond(200, <<CHOOSE a \in found : TRUE>>, 0, 0, 1)
  /\ UNCHANGED <<proc, firestore, ServerOther>>

\* the MongoDB endpoints: Product.find / Product.findById, answered by status
getFilteredProducts(up) ==
  /\ Serving /\ req.stage = "controller" /\ req.route = "/get"
  /\ Respond(IF up THEN 200 ELSE 500, << >>, 0, 0, 0)
  /\ UNCHANGED <<proc, firestore, ServerOther>>

getProductDetails(status) ==
  /\ Serving /\ req.stage = "controller" /\ req.route = "/get/:id"
  /\ Respond(status, << >>, 0, 0, 0)
  /\ UNCHANGED <<proc, firestore, ServerOther>>

\* ------------------------------------------------------ the server process
MaxSignals == 2

Exit(code) == proc' = [proc EXCEPT !.phase = "exited", !.code = code]

\* mongoose.connect resolves: server = app.listen(PORT)
ConnectResolved ==
  /\ proc.phase = "connecting"
  /\ proc' = [proc EXCEPT !.phase = "listening"]
  /\ UNCHANGED <<req, firestore, ServerOther>>

\* mongoose.connect rejects: process.exit(1)
ConnectRejected ==
  /\ proc.phase = "connecting"
  /\ Exit(1)
  /\ UNCHANGED <<req, firestore, ServerOther>>

\* SIGINT or SIGTERM: with `server` set, server.close(...) and the timer of
\* 10 s; without it, nothing
gracefulShutdown ==
  /\ proc.phase # "exited"
  /\ proc.signals < MaxSignals
  /\ proc' = IF proc.phase = "listening"
             THEN [proc EXCEPT !.signals = @ + 1, !.timers = @ + 1,
                               !.closing = IF @ = "no" THEN "http" ELSE @]
             ELSE [proc EXCEPT !.signals = @ + 1]
  /\ UNCHANGED <<req, firestore, ServerOther>>

\* the callback of server.close: no connection is open any more
HttpClosed ==
  /\ Serving /\ proc.closing = "http"
  /\ req.stage \in {"none", "done"}
  /\ proc' = [proc EXCEPT !.closing = "mongo"]
  /\ UNCHANGED <<req, firestore, ServerOther>>

\* the callback of mongoose.connection.close: process.exit(0)
MongoClosed ==
  /\ Serving /\ proc.closing = "mongo"
  /\ Exit(0)
  /\ UNCHANGED <<req, firestore, ServerOther>>

\* the timer of 10 s fires: process.exit(1)
ForceClose ==
  /\ Serving /\ proc.timers > 0
  /\ Exit(1)
  /\ UNCHANGED <<req, firestore, ServerOther>>

ServerNext ==
  \/ ConnectResolved
  \/ ConnectRejected
  \/ gracefulShutdown
  \/ HttpClosed
  \/ MongoClosed
  \/ ForceClose
  \/ \E route \in {"/firebase/get"}, user \in Users, page \in 1..MaxPage,
        limit \in 1..MaxLimit, category \in SUBSET {"men"},
        sortBy \in SortOptions :
       Receive(route, user, page, limit, category, sortBy, 0)
  \/ \E route \in {"/firebase/get/:id", "/get/:id"}, user \in Users, id \in {1, 4} :
       Receive(route, user, 1, 1, {}, "price-lowtohigh", id)
  \/ \E user \in Users, category \in SUBSET {"men"} :
       Receive("/get", user, 1, 1, category, "price-lowtohigh", 0)
  \/ authMiddleware
  \/ \E up \in BOOLEAN : getFilteredProductsFromFirebase(up)
  \/ \E up \in BOOLEAN : getProductDetailsFromFirebase(up)
  \/ \E up \in BOOLEAN : getFilteredProducts(up)
  \/ \E status \in {200, 404, 500} : getProductDetails(status)

ServerSpec == ServerInit /\ [][ServerNext]_vars

\* ------------------------------------------------------------ axiosClient
Calls == {1, 2}
MaxSent == 3      \* a request is not followed beyond this number of sends

NoCall == [pc |-> "idle", retry |-> FALSE, sent |-> 0, refreshes |-> 0,
           refresh |-> "none", logouts |-> 0]

ClientInit ==
  /\ calls = [i \in Calls |-> NoCall]
  /\ auth = [isAuthenticated |-> TRUE, location |-> "/shop/listing"]
  /\ PageIdle /\ NoServer /\ NoOrders /\ NoTiles

ClientOther == <<pageVars, serverVars, orderVars, tileVars>>

\* axiosClient(config)
Call(i) ==
  /\ calls[i].pc = "idle"
  /\ calls' = [calls EXCEPT ![i].pc = "wait", ![i].sent = 1]
  /\ UNCHANGED <<auth, ClientOther>>

\* variant: the 401 handler without the _retry flag
Retriable_NoFlag(call, status) == status = 401

\* error.response?.status === 401 && !originalRequest._retry
Retriable(call, status) == status = 401 /\ ~call.retry

\* the response interceptor: a response (status 200), an error response, or an
\* error without response (status 0)
OnResponse(i, status) ==
  /\ calls[i].pc = "wait"
  /\ calls' = IF status = 200 THEN [calls EXCEPT ![i].pc = "resolved"]
              ELSE IF Retriable(calls[i], status)
              THEN [calls EXCEPT ![i].retry = TRUE, ![i].pc = "checkAuth",
                                 ![i].refreshes = @ + 1]
              ELSE [calls EXCEPT ![i].pc = "rejected"]
  /\ UNCHANGED <<auth, ClientOther>>

\* await store.dispatch(checkAuth()) settles: payload.success, no success, or
\* an exception; on success the original request is sent again
OnCheckAuth(i, outcome) ==
  /\ calls[i].pc = "checkAuth"
  /\ calls[i].sent < MaxSent
  /\ calls' = IF outcome = "success"
              THEN [calls EXCEPT ![i].refresh = outcome, ![i].pc = "wait",
                                 ![i].sent = @ + 1]
              ELSE [calls EXCEPT ![i].refresh = outcome, ![i].pc = "logoutUser"]
  /\ auth' = [auth EXCEPT !.isAuthenticated = (outcome = "success")]
  /\ UNCHANGED ClientOther

\* await store.dispatch(logoutUser()) settles, the window goes to the login
\* page, and the error is rejected
OnLogoutUser(i) ==
  /\ calls[i].pc = "logoutUser"
  /\ calls' = [calls EXCEPT ![i].pc = "rejected", ![i].logouts = @ + 1]
  /\ auth' = [isAuthenticated |-> FALSE, location |-> "/auth/login"]
  /\ UNCHANGED ClientOther

ClientNext ==
  \/ \E i \in Calls : Call(i)
  \/ \E i \in Calls, status \in {200, 401, 500, 0} : OnResponse(i, status)
  \/ \E i \in Calls, outcome \in {"success", "fail", "throws"} : OnCheckAuth(i, outcome)
  \/ \E i \in Calls : OnLogoutUser(i)

ClientSpec == ClientInit /\ [][ClientNext]_vars

\* ------------------------------------------------- orders and payments
MaxStock == 2
MaxHandlers == 2
ProductIds == {"p1", "p2"}
OrderIds == {"o1", "o2"}
\* order.cartItems; the cart of an order has the id of the order
cartItems ==
  [o \in OrderIds |->
     IF o = "o1" THEN <<[productId |-> "p1", quantity |-> 1],
                        [productId |-> "p2", quantity |-> 1]>>
     ELSE <<[productId |-> "p1", quantity |-> 1]>>]
Items == {<<o, i>> : o \in OrderIds, i \in 1..2} \cap
         {x \in OrderIds \X (1..2) : x[2] <= Len(cartItems[x[1]])}

Pending == [paymentStatus |-> "pending", orderStatus |-> "pending"]
Paid == [paymentStatus |-> "paid", orderStatus |-> "confirmed"]
Failed == [paymentStatus |-> "failed", orderStatus |-> "cancelled"]

NoHandler == [kind |-> "none", order |-> "", pc |-> "none", item |-> 0, stock |-> 0,
              status |-> 0, wrote |-> 0]

OrderInit ==
  /\ db \in [Product : [ProductIds -> 0..MaxStock],
             Order : {[o \in OrderIds |-> Pending]},
             Cart : {OrderIds}]
  /\ handlers = [h \in 1..MaxHandlers |-> NoHandler]
  /\ log = [deducted |-> [x \in Items |-> 0], verified |-> {},
            initial |-> db.Product]
  /\ PageIdle /\ NoServer /\ NoClient /\ NoTiles

OrderOther == <<pageVars, serverVars, clientVars, tileVars>>

Done(h, status) == [handlers[h] EXCEPT !.pc = "done", !.status = status]

\* capturePayment up to the stock loop: Order.findById, paystack.verifyPayment
\* (verification: no success, a status other than 'success', or 'success')
capturePayment(h, o, verification) ==
  /\ handlers[h].kind = "none"
  /\ LET start == [NoHandler EXCEPT !.kind = "capture", !.order = o] IN
       handlers' = [handlers EXCEPT ![h] =
          IF o \notin OrderIds THEN [start EXCEPT !.pc = "done", !.status = 404]
          ELSE IF verification # "success"
          THEN [start EXCEPT !.pc = "done", !.status = 400]
          ELSE [start EXCEPT !.pc = "read", !.item = 1]]
  /\ log' = IF o \in OrderIds /\ verification = "success"
            THEN [log EXCEPT !.verified = @ \cup {o}] ELSE log
  /\ UNCHANGED <<db, OrderOther>>

\* handlePaystackWebhook: the signature, then the handler of the event;
\* charge.success and charge.failed find the order and save its new status
handlePaystackWebhook(h, event, o, signed) ==
  /\ handlers[h].kind = "none"
  /\ LET start == [NoHandler EXCEPT !.kind = event, !.order = o] IN
       IF ~signed
       THEN /\ handlers' = [handlers EXCEPT ![h] =
                              [start EXCEPT !.pc = "done", !.status = 401]]
            /\ UNCHANGED <<db, log>>
       ELSE IF event = "charge.success" /\ o \in OrderIds
       THEN /\ handlers' = [handlers EXCEPT ![h] =
                              [start EXCEPT !.pc = "read", !.item = 1, !.wrote = 1]]
            /\ db' = [db EXCEPT !.Order[o] = Paid]
            /\ log' = [log EXCEPT !.verified = @ \cup {o}]
       ELSE IF event = "charge.failed" /\ o \in OrderIds
       THEN /\ handlers' = [handlers EXCEPT ![h] =
                              [start EXCEPT !.pc = "done", !.status = 200, !.wrote = 1]]
            /\ db' = [db EXCEPT !.Order[o] = Failed]
            /\ UNCHANGED log
       ELSE /\ handlers' = [handlers EXCEPT ![h] =
                              [start EXCEPT !.pc = "done", !.status = 200]]
            /\ UNCHANGED <<db, log>>
  /\ UNCHANGED OrderOther

ItemOf(h) == cartItems[handlers[h].order][handlers[h].item]

\* variant: the stock not compared with the quantity
EnoughStock_Always(totalStock, quantity) == TRUE

EnoughStock(totalStock, quantity) == totalStock >= quantity

\* after the item of a handler: the next item, or the cart
NextItem(h) ==
  IF handlers[h].item < Len(cartItems[handlers[h].order])
  THEN [handlers[h] EXCEPT !.pc = "read", !.item = @ + 1]
  ELSE [handlers[h] EXCEPT !.pc = "cart"]

\* await Product.findById(item.productId) and the test of the stock
FindProduct(h) ==
  /\ handlers[h].pc = "read"
  /\ LET totalStock == db.Product[ItemOf(h).productId] IN
       handlers' = [handlers EXCEPT ![h] =
          IF EnoughStock(totalStock, ItemOf(h).quantity)
          THEN [@ EXCEPT !.pc = "save", !.stock = totalStock - ItemOf(h).quantity]
          ELSE IF @.kind = "capture" THEN Done(h, 400)
          ELSE NextItem(h)]
  /\ UNCHANGED <<db, log, OrderOther>>

\* await product.save(): the totalStock computed on the document is written
SaveProduct(h) ==
  /\ handlers[h].pc = "save"
  /\ db' = [db EXCEPT !.Product[ItemOf(h).productId] = handlers[h].stock]
  /\ log' = [log EXCEPT !.deducted[<<handlers[h].order, handlers[h].item>>] = @ + 1]
  /\ handlers' = [handlers EXCEPT ![h] = [NextItem(h) EXCEPT !.wrote = @ + 1]]
  /\ UNCHANGED OrderOther

\* await Cart.findByIdAndDelete(order.cartId)
DeleteCart(h) ==
  /\ handlers[h].pc = "cart"
  /\ db' = [db EXCEPT !.Cart = @ \ {handlers[h].order}]
  /\ handlers' = [handlers EXCEPT ![h] =
        IF @.kind = "capture" THEN [@ EXCEPT !.pc = "order", !.wrote = @ + 1]
        ELSE [Done(h, 200) EXCEPT !.wrote = @ + 1]]
  /\ UNCHANGED <<log, OrderOther>>

\* capturePayment: await order.save() and the answer 200
SaveOrder(h) ==
  /\ handlers[h].pc = "order"
  /\ db' = [db EXCEPT !.Order[handlers[h].order] = Paid]
  /\ handlers' = [handlers EXCEPT ![h] = [Done(h, 200) EXCEPT !.wrote = @ + 1]]
  /\ UNCHANGED <<log, OrderOther>>

OrderNext ==
  \/ \E h \in 1..MaxHandlers, o \in OrderIds \cup {"o0"},
        verification \in {"error", "abandoned", "success"} :
       capturePayment(h, o, verification)
  \/ \E h \in 1..MaxHandlers, o \in OrderIds \cup {"o0"}, signed \in BOOLEAN,
        event \in {"charge.success", "charge.failed", "transfer.success"} :
       handlePaystackWebhook(h, event, o, signed)
  \/ \E h \in 1..MaxHandlers : FindProduct(h)
  \/ \E h \in 1..MaxHandlers : SaveProduct(h)
  \/ \E h \in 1..MaxHandlers : DeleteCart(h)
  \/ \E h \in 1..MaxHandlers : SaveOrder(h)

OrderSpec == OrderInit /\ [][OrderNext]_vars

\* ------------------------------------------------------ the product tile
TileIds == {1, 2}
Images == {"", "a.png", "b.png"}      \* product?.image; "" when absent

\* useState of a tile mounted with a product of image url; the effect of
\* [product?.image] is still to run
MountedTile(url) ==
  [image |-> url, imageLoading |-> TRUE, imageError |-> FALSE,
   currentImage |-> url, pending |-> TRUE, last |-> "mount"]

TileInit ==
  /\ tiles \in [TileIds -> {MountedTile(url) : url \in Images}]
  /\ PageIdle /\ NoServer /\ NoOrders /\ NoClient

TileOther == <<pageVars, serverVars, orderVars, clientVars>>

\* what renderImage returns
renderImage(t) ==
  IF t.imageLoading THEN "skeleton"
  ELSE IF t.imageError \/ t.currentImage = "" THEN "unavailable"
  ELSE "img"

\* the events the rendered tile can receive: a click on the tile, onLoad and
\* onError of the <img>, a click on Retry
Events(t) ==
  {"click"}
  \cup (IF renderImage(t) = "img" THEN {"load", "error"} ELSE {})
  \cup (IF renderImage(t) = "unavailable" THEN {"retry"} ELSE {})

handleImageLoad(t) == [t EXCEPT !.imageLoading = FALSE]
handleImageError(t) == [t EXCEPT !.imageLoading = FALSE, !.imageError = TRUE]
Retry(t) ==
  [t EXCEPT !.imageError = FALSE, !.imageLoading = TRUE,
            !.currentImage = IF t.image # "" THEN t.image ELSE @]

Handle(ev, t) ==
  IF ev = "load" THEN handleImageLoad(t)
  ELSE IF ev = "error" THEN handleImageError(t)
  ELSE IF ev = "retry" THEN Retry(t)
  ELSE t

\* useEffect [product?.image]
ImageEffect(i) ==
  /\ tiles[i].pending
  /\ LET t == tiles[i] IN
       tiles' = [tiles EXCEPT ![i] =
         IF t.image # ""
         THEN [t EXCEPT !.currentImage = t.image, !.imageError = FALSE,
                        !.imageLoading = TRUE, !.pending = FALSE]
         ELSE [t EXCEPT !.pending = FALSE]]
  /\ UNCHANGED TileOther

\* the list gives the tile another product
NewProduct(i, url) ==
  /\ ~tiles[i].pending
  /\ url # tiles[i].image
  /\ tiles' = [tiles EXCEPT ![i].image = url, ![i].pending = TRUE, ![i].last = "props"]
  /\ UNCHANGED TileOther

TileEvent(i) ==
  /\ ~tiles[i].pending
  /\ \E ev \in Events(tiles[i]) :
       tiles' = [tiles EXCEPT ![i] = [Handle(ev, tiles[i]) EXCEPT !.last = ev]]
  /\ UNCHANGED TileOther

TileNext ==
  \/ \E i \in TileIds : ImageEffect(i)
  \/ \E i \in TileIds, url \in Images : NewProduct(i, url)
  \/ \E i \in TileIds : TileEvent(i)

TileSpec == TileInit /\ [][TileNext]_vars

TypeOK ==
  /\ fallbackMode \in BOOLEAN
  /\ sort \in SortOptions \cup {NoSort}
  /\ filters \in FilterValues
  /\ clicks \in 0..MaxClicks /\ toasts \in Nat
  /\ sinceReset \in [eligible : BOOLEAN, toasts : Nat]

\* ------------------------------------------------------------------ claims
ListRejected(thunk) ==
  lastEvent.kind = "rejected" /\ lastEvent.thunk = thunk
ListFulfilled ==
  lastEvent.kind = "fulfilled" /\ IsList(lastEvent.thunk)
NoErrorHeld ==
  /\ shopProducts.error = Null
  /\ shopProducts.firebaseError = Null
  /\ shopProducts.authError = Null
ListInFlight == \E i \in 1..Len(inflight) : IsList(inflight[i])

\* C1: once a failure of a list fetch of the primary source classified as
\* Unauthorized (401) or NotFound (404), handled in Primary mode, has been
\* processed (reducer applied, effects run to quiescence), the mode is Fallback.
C1_FallbackAfterUnauthorizedOrNotFound ==
  (Quiescent /\ ListRejected("firebase") /\ ~lastEvent.mode
     /\ lastEvent.status \in {401, 404}
     /\ lastEvent.payload.type \in {"AUTH_ERROR", "NOT_FOUND"})
  => fallbackMode

\* C2: last request wins: when the last list fetch in flight has settled,
\* productList is the result of the fetch issued last, and no error is held if
\* that fetch succeeded, whatever the order in which the responses arrived.
C2_LastRequestWins ==
  (~ListInFlight /\ lastList.issued
     /\ lastEvent.kind \in {"fulfilled", "rejected"} /\ IsList(lastEvent.thunk))
  => /\ shopProducts.productList = lastList.data
     /\ lastList.ok => ~Truthy(shopProducts.error)

\* C3: with the primary source answering 401 or 404 and the fallback source
\* answering with records, the listing, left to itself, ends in Fallback mode
\* showing the fallback store's records: when nothing is left to do (no effect
\* queued, no request in flight) that is the state it is in.
C3_EndsInFallbackWithRecords ==
  (Quiescent /\ inflight = << >> /\ lastList.issued)
  => (fallbackMode /\ shopProducts.productList \in FallbackUp)

\* C4: from handleRetryWithFirebase until the next result of a request is
\* applied, the mode is Primary and error, firebaseError and authError are null.
C4_RetryResetsModeAndErrors ==
  afterRetry => (~fallbackMode /\ NoErrorHeld)

C4_Witness ==
  afterRetry /\ Quiescent /\ lastEvent.kind = "retry" /\ lastEvent.mode

\* C5 as claimed: handleRetryWithFirebase dispatches no product-list request.
C5_RetryDispatchesNothing ==
  lastEvent.kind = "retry" => lastEvent.sent = << >>

\* C5 as amended: handleRetryWithFirebase resets the mode, clears the held
\* errors and itself dispatches exactly one product-list request.
C5_RetryDispatchesOneFetch ==
  lastEvent.kind = "retry"
  => /\ Len(lastEvent.sent) = 1
     /\ IsList(lastEvent.sent[1])

C5_Witness ==
  lastEvent.kind = "retry" /\ afterRetry /\ dispatched # << >>

\* C6: a list request goes to the adapter of the current mode: the MongoDB
\* thunk is dispatched only in Fallback mode, the Firebase thunk only in
\* Primary mode.
C6_AdapterMatchesMode ==
  \A i \in 1..Len(dispatched) :
    /\ dispatched[i] = "mongo" => fallbackMode
    /\ dispatched[i] = "firebase" => ~fallbackMode

\* C7: a failure of a primary list fetch with status 500, a timeout, no
\* response or any other status, handled in Primary mode, leaves the mode
\* Primary and shows no "Using Backup Database" toast.
C7_OtherFailuresKeepPrimary ==
  (ListRejected("firebase") /\ ~lastEvent.mode /\ lastEvent.status \notin {401, 404})
  => (~fallbackMode /\ toasts = lastEvent.toasts)

C7_Witness ==
  /\ Quiescent /\ ListRejected("firebase") /\ ~lastEvent.mode
  /\ lastEvent.status = 500 /\ Truthy(shopProducts.error)

CategoryOf(status) ==
  IF status = 401 THEN "AUTH_ERROR"
  ELSE IF status = 404 THEN "NOT_FOUND"
  ELSE IF status = 500 THEN "SERVER_ERROR"
  ELSE IF status # 0 THEN "API_ERROR"
  ELSE "NETWORK_ERROR"

C10_SuccessClearsAllErrors ==
  ListFulfilled
  => /\ NoErrorHeld
     /\ shopProducts.productList = lastEvent.data
     /\ fallbackMode = lastEvent.mode

\* C10 as amended: applying the result of a successful list fetch sets error to
\* null and productList to the returned records (empty without records) and
\* leaves firebaseError, authError and the mode as they were.
C10_SuccessClearsError ==
  [][(lastEvent' # lastEvent /\ lastEvent'.kind = "fulfilled" /\ IsList(lastEvent'.thunk))
     => /\ shopProducts'.error = Null
        /\ shopProducts'.productList = lastEvent'.data
        /\ shopProducts'.firebaseError = shopProducts.firebaseError
        /\ shopProducts'.authError = shopProducts.authError
        /\ fallbackMode' = fallbackMode]_vars

C10_Witness ==
  ListFulfilled /\ lastEvent.thunk = "mongo" /\ Len(shopProducts.productList) > 0
  /\ Truthy(shopProducts.firebaseError)

AnyErrorHeld ==
  \/ Truthy(shopProducts.error)
  \/ Truthy(shopProducts.firebaseError)
  \/ Truthy(shopProducts.authError)

\* C11: while the result applied last is a classified failure of a list fetch
\* and the user has done nothing since, once the effects have run an error is
\* held in the slice and the page does not show the empty state.
C11_FailureNotSwallowed ==
  (Quiescent /\ lastEvent.kind = "rejected" /\ IsList(lastEvent.thunk)
     /\ Truthy(lastEvent.payload))
  => (AnyErrorHeld /\ ~EmptyShown(rendered))

\* C12: of error, firebaseError and authError at most one holds an error at
\* any time.
C12_AtMostOneErrorHeld ==
  Cardinality({f \in {"error", "firebaseError", "authError"} :
                 Truthy(shopProducts[f])}) <= 1

\* C13: in no quiescent state is the mode primary while a failure of the
\* primary source classified AUTH_ERROR or NOT_FOUND has been received since
\* the last handleRetryWithFirebase.
C13_ModeFollowsFailuresSeen ==
  (Quiescent /\ sinceReset.eligible) => fallbackMode

\* C14: between two consecutive handleRetryWithFirebase (or from the start to
\* the first) the toast "Using Backup Database" is shown at most once, and
\* exactly once when the mode is the fallback.
C14_OneToastPerSwitch ==
  /\ sinceReset.toasts <= 1
  /\ fallbackMode <=> sinceReset.toasts = 1

\* a second switch after a retry, declined again while in the fallback mode
C14_Witness ==
  /\ Quiescent /\ fallbackMode /\ toasts = 2 /\ sinceReset.toasts = 1
  /\ Truthy(shopProducts.firebaseError)

RetryStep == clicks' = clicks + 1 /\ lastEvent'.kind = "retry"

\* C15: the mode starts as primary; it becomes the fallback only in the effect
\* of firebaseError, on a held failure of the primary source classified
\* AUTH_ERROR or NOT_FOUND; it becomes primary again only in
\* handleRetryWithFirebase.
C15_ModeChangesOnlyBySwitchAndRetry ==
  /\ ~fallbackMode
  /\ [][/\ (~fallbackMode /\ fallbackMode')
             => /\ effects # << >> /\ Head(effects) = "firebaseError"
                /\ rendered.firebaseError.type \in {"AUTH_ERROR", "NOT_FOUND"}
                /\ rendered.firebaseError = shopProducts.firebaseError
        /\ (fallbackMode /\ ~fallbackMode') => (Quiescent /\ RetryStep)]_vars

C15_Witness ==
  /\ lastEvent.kind = "retry" /\ lastEvent.mode /\ ~fallbackMode
  /\ toasts = 1 /\ sinceReset = NoneSinceReset

\* C16 as stated: in every state with the mode fallback, an error held or not,
\* the "Switch to Primary" button is there.
C16_RetryAvailableInEveryFallbackState ==
  (Quiescent /\ fallbackMode) => RetryAvailable(rendered)

\* C16: in a settled state with the mode fallback the "Switch to Primary"
\* button is there exactly when an error is held and nothing is loading, and
\* taking it leaves the mode primary.
C16_RetryAvailableInFallbackError ==
  /\ []((Quiescent /\ fallbackMode)
          => (RetryAvailable(rendered)
                <=> (Truthy(shopProducts.error) /\ ~shopProducts.isLoading)))
  /\ [][RetryStep => (RetryAvailable(rendered) /\ fallbackMode /\ ~fallbackMode')]_vars

C16_Witness ==
  /\ lastEvent.kind = "retry" /\ lastEvent.mode /\ ~fallbackMode
  /\ lastEvent.sent # << >> /\ ~Quiescent

\* the category the ordered rules give, as type and code of the payload
ExpectedCategory(status, code) ==
  IF code = "ECONNABORTED" THEN <<"NETWORK_ERROR", "TIMEOUT">>
  ELSE IF status = 401 THEN <<"AUTH_ERROR", "UNAUTHORIZED">>
  ELSE IF status = 404 THEN <<"NOT_FOUND", "PRODUCTS_NOT_FOUND">>
  ELSE IF status = 500 THEN <<"SERVER_ERROR", "SERVER_ERROR">>
  ELSE IF status # 0 THEN <<"API_ERROR", "API_ERROR">>
  ELSE <<"NETWORK_ERROR", "NETWORK_ERROR">>

\* C17: the payload of every rejected list fetch of the primary source carries
\* the category the ordered rules give for the raw failure: timeout, 401, 404,
\* 500, any other response, no response; the six differ in type or code.
C17_ClassifiedByOrderedRules ==
  (lastEvent.kind = "rejected" /\ lastEvent.thunk = "firebase")
  => <<lastEvent.payload.type, lastEvent.payload.code>>
       = ExpectedCategory(lastEvent.status, lastEvent.code)

\* C18: every rejected fetch of the primary source, list or details, carries
\* a classified error with a message that is not empty, and the error held by
\* the slice is never undefined.
C18_ClassifierNeverRaises ==
  /\ shopProducts.error # Undefined
  /\ (lastEvent.kind = "rejected" /\ lastEvent.thunk \in {"firebase", "details"})
       => (Truthy(lastEvent.payload) /\ lastEvent.payload.message # "")

C20_ClearErrorIdempotent ==
  [][lastEvent'.kind = "clearError"
       => /\ NoErrorHeld => shopProducts' = shopProducts
          /\ clearProductErrors(shopProducts') = shopProducts'
          /\ fallbackMode' = fallbackMode]_vars

\* clearProductErrors applied with no error held, on a slice with records
C20_Witness ==
  /\ lastEvent.kind = "clearError" /\ lastEvent.payload = Null /\ NoErrorHeld
  /\ Len(shopProducts.productList) > 0 /\ shopProducts.isLoading /\ fallbackMode

\* C21: a request to a Firebase route without an authenticated user is
\* answered 401 without a read of Firestore; a request to a MongoDB route is
\* answered the same whoever sends it, never with 401.
C21_FirebaseRoutesNeedUser ==
  req.stage = "done"
  => /\ (req.route \in {"/firebase/get", "/firebase/get/:id"} /\ req.user # "user")
          => (req.status = 401 /\ req.reads = 0)
     /\ req.route \in {"/get", "/get/:id"} => req.status # 401

\* a user object without id stopped by the controller, and an anonymous
\* request served by a MongoDB route
C21_Witness ==
  /\ req.stage = "done" /\ req.route = "/firebase/get" /\ req.user = "noid"
  /\ req.status = 401 /\ firestore = Catalog

\* C29: the answer to a Firebase list request of page p and limit L holds the
\* records at positions (p-1)*L .. p*L-1 of the matching records in order, and
\* total and totalPages count all matching records.
C29_PageOfFullResult ==
  (req.stage = "done" /\ req.route = "/firebase/get" /\ req.status = 200)
  => LET all == Sorted(Matching(firestore, req.category), req.sortBy)
     IN  /\ req.data = Slice(all, (req.page - 1) * req.limit, req.page * req.limit)
         /\ req.total = Len(all)
         /\ req.totalPages = Ceil(Len(all), req.limit)

\* C23: once SIGINT or SIGTERM was received, a process that is listening has
\* its close under way and its force-close timer armed, so that it exits.
C23_SignalLeadsToExit ==
  (proc.signals > 0 /\ proc.phase = "listening")
  => (proc.timers > 0 /\ proc.closing # "no")

Settled(call) == call.pc \in {"resolved", "rejected"}

C24_StockNeverNegative ==
  \A p \in ProductIds : db.Product[p] >= 0

\* two handlers of different orders have both deducted the one unit of the
\* product they share
C24_Witness ==
  /\ handlers[1].pc = "done" /\ handlers[2].pc = "done"
  /\ handlers[1].order # handlers[2].order
  /\ log.deducted[<<"o1", 1>>] = 1 /\ log.deducted[<<"o2", 1>>] = 1
  /\ log.initial["p1"] = 1 /\ db.Product["p1"] = 0

\* the units of product p the handlers have subtracted so far
RECURSIVE SubtractedIn(_, _)
SubtractedIn(S, p) ==
  IF S = {} THEN 0
  ELSE LET x == CHOOSE y \in S : TRUE
           item == cartItems[x[1]][x[2]]
       IN  (IF item.productId = p THEN log.deducted[x] * item.quantity ELSE 0)
           + SubtractedIn(S \ {x}, p)

\* C24 as stated: the totalStock of every product stays >= 0, and the
\* handlers together never subtract more units than the stock held.
C24_NeverSubtractMoreThanStock ==
  \A p \in ProductIds :
    db.Product[p] >= 0 /\ SubtractedIn(Items, p) <= log.initial[p]

\* C25: for each order, the quantity of each cart item is subtracted from the
\* stock of its product at most once, however often capturePayment and the
\* webhook are processed.
C25_DeductedAtMostOnce ==
  \A x \in Items : log.deducted[x] <= 1

\* C26: a capturePayment that answers with an error has written nothing: no
\* stock, no order, no cart.
C26_CaptureAllOrNothing ==
  \A h \in 1..MaxHandlers :
    (handlers[h].kind = "capture" /\ handlers[h].pc = "done" /\ handlers[h].status # 200)
    => handlers[h].wrote = 0

\* C27: an order becomes paid / confirmed only with a verification that
\* succeeded or a signed charge.success, and a paid order stays paid.
C27_PaidIsMonotonic ==
  [][\A o \in OrderIds :
       /\ (db.Order[o] # Paid /\ db'.Order[o] = Paid) => o \in log'.verified
       /\ db.Order[o] = Paid => db'.Order[o] = Paid]_vars

\* C28: isLoading is true in every state in which a request of the slice, a
\* list fetch or a details fetch, is still in flight.
C28_LoadingWhileInFlight ==
  inflight # << >> => shopProducts.isLoading

\* C30: a tile of a product with an image that shows the loading skeleton can
\* leave it: the image is mounted, so that its load or its error ends the
\* loading state.
C30_LoadingCanEnd ==
  \A i \in TileIds :
    (tiles[i].image # "" /\ tiles[i].imageLoading /\ ~tiles[i].pending)
    => \E ev \in Events(tiles[i]) : ~Handle(ev, tiles[i]).imageLoading
====
